---- MODULE Spec2Model ----
(***************************************************************************)
(* Telemetry store (GNCDatabase, pc_database.js) and its REST binding      *)
(* (pc_server.js lines 1-324).                                             *)
(*                                                                         *)
(* JavaScript strings built from templates are modelled as sequences of    *)
(* tokens (the literal parts and the interpolated values), so that "the    *)
(* message contains X" is token membership.                                *)
(***************************************************************************)
EXTENDS Integers, Sequences, FiniteSets, TLC

VARIABLES
  databaseName,        \* this.databaseName, set by the constructor
  mongoDBConnection,   \* this.mongoDBConnection: "null", "connected", "closed"
  databaseConnection,  \* this.databaseConnection is non-null
  tempCollection,      \* this.tempCollection is defined
  distCollection,      \* this.distCollection is defined
  speedCollection,     \* this.speedCollection is defined
  database,            \* the MongoDB database: collection name -> documents in insertion order
  nextId,              \* the driver's ObjectId counter (_id of the next inserted document)
  fileLog,             \* the FileWriter side log: entries <<metric, sensorId, value>>
  initPc,              \* position of GNCDatabase.init()
  inflight,            \* requests suspended at an await
  nreq,                \* number of requests received so far
  lastRes,             \* the response the last step sent, with the request it answers (NoResponse if none)
  untouched,           \* ghost: (collection, sensor) pairs with no request append since init()/clear()
  overlapped,          \* ghost: (collection, sensor) pairs whose latest append ran concurrently with another
  lastAck,             \* ghost: (collection, sensor) -> the reading of the last acknowledged, unraced write
  created,             \* ghost: the write requests answered 201 whose collection was not dropped since
  errIn,               \* getError harness: the error value handed to getError
  errOut,              \* getError harness: the object getError returned
  clearOut,            \* clear() harness: what the clear() run did
  REG_DATABASE_NAME,   \* lastIndex of the regular expression REG_DATABASE_NAME
  REG_SERVER_URL,      \* lastIndex of the regular expression REG_SERVER_URL
  instance,            \* constructor harness: the outcome of the last new GNCDatabase(dbUrl)
  constructions,       \* constructor harness: number of constructions so far
  prior                \* ghost: the database as it was when the process started

vars == <<databaseName, mongoDBConnection, databaseConnection, tempCollection,
          distCollection, speedCollection, database, nextId, fileLog, initPc,
          inflight, nreq, lastRes, untouched, overlapped, lastAck, created, errIn, errOut,
          clearOut, REG_DATABASE_NAME, REG_SERVER_URL, instance, constructions,
          prior>>

ghostVars == <<untouched, overlapped, lastAck, created>>

constructorVars == <<REG_DATABASE_NAME, REG_SERVER_URL, instance, constructions>>

harnessVars == <<errIn, errOut, clearOut, constructorVars, prior>>

(***************************************************************************)
(* Bounds of the model.                                                    *)
(***************************************************************************)
MaxRequests == 2
MaxConstructions == 5
MaxPrior == 2

(***************************************************************************)
(* Program constants.                                                      *)
(***************************************************************************)
OK == 200
CREATED == 201
BAD_REQUEST == 400
NOT_FOUND == 404
CONFLICT == 409
SERVER_ERROR == 500

Undefined == "<undefined>"   \* a query or path parameter that is absent

CollectionNames == {"Temperature", "Distance", "Speed"}
SeedSensors == <<"1", "2", "3", "4">>

\* Inputs the requests are drawn from: the sensors of the read routes, and the
\* query strings of the write routes (complete ones, ones with a parameter
\* absent or empty, and the empty query string).
PathSensors == {"1", "99"}

Query(sensorId, value, seqNum) == [sensorId |-> sensorId, value |-> value, seqNum |-> seqNum]

Queries ==
  {Query("1", "26", "5"), Query("1", "7", "0"), Query("99", "26", "5"),
   Query(Undefined, "26", "5"), Query("", "26", "5"),
   Query("1", Undefined, "5"), Query("1", "", "5"),
   Query("1", "26", Undefined), Query("1", "26", ""),
   Query(Undefined, Undefined, Undefined)}

DbNames == {"gnc"}

NoDocument == [_id |-> 0]    \* findOne's null

EmptyDatabase == [n \in {} |-> <<>>]

(***************************************************************************)
(* The MongoDB collection operations the store uses.                       *)
(***************************************************************************)
Documents(name) == IF name \in DOMAIN database THEN database[name] ELSE <<>>

\* Mutant of insertOne: an upsert keyed by sensorID, which replaces the sensor's
\* document instead of adding one.
insertOneUpsert(db, id, name, sensorId, sensorValue, seqNum) ==
  LET old == IF name \in DOMAIN db THEN db[name] ELSE <<>>
      doc == [_id |-> id, sensorID |-> sensorId, sensorValue |-> sensorValue,
              seqNum |-> seqNum]
      kept == SelectSeq(old, LAMBDA d : d.sensorID # sensorId)
  IN [n \in DOMAIN db \cup {name} |-> IF n = name THEN Append(kept, doc) ELSE db[n]]

\* insertOne({sensorID, sensorValue, seqNum}): the driver gives the document the
\* next ObjectId; a dropped collection is created again by the insert.
insertOne(db, id, name, sensorId, sensorValue, seqNum) ==
  LET old == IF name \in DOMAIN db THEN db[name] ELSE <<>>
      doc == [_id |-> id, sensorID |-> sensorId, sensorValue |-> sensorValue,
              seqNum |-> seqNum]
  IN [n \in DOMAIN db \cup {name} |-> IF n = name THEN Append(old, doc) ELSE db[n]]

\* Mutant of findOne: the sort ascending ({_id: 1}), which finds the oldest document.
findOneOldest(name, sensorId) ==
  LET docs == Documents(name)
      hits == {i \in 1..Len(docs) : docs[i].sensorID = sensorId}
  IN IF hits = {} THEN NoDocument
     ELSE docs[CHOOSE i \in hits : \A j \in hits : docs[i]._id <= docs[j]._id]

\* findOne({sensorID: sensorId}, {sort: {_id: -1}, limit: 1})
findOne(name, sensorId) ==
  LET docs == Documents(name)
      hits == {i \in 1..Len(docs) : docs[i].sensorID = sensorId}
  IN IF hits = {} THEN NoDocument
     ELSE docs[CHOOSE i \in hits : \A j \in hits : docs[j]._id <= docs[i]._id]

(***************************************************************************)
(* Error values.  A thrown JavaScript value is a record: type says what    *)
(* was thrown (a string, a plain object, an Error), isDomain / errorCode / *)
(* message are its properties (Undefined when absent) and text is what     *)
(* toString() gives.                                                       *)
(***************************************************************************)
StringError(tokens) ==
  [type |-> "string", isDomain |-> FALSE, errorCode |-> Undefined,
   message |-> <<Undefined>>, text |-> tokens]

DomainError(code, msg) ==
  [type |-> "object", isDomain |-> TRUE, errorCode |-> code,
   message |-> msg, text |-> <<"[object Object]">>]

ErrorObject(name, msg) ==
  [type |-> name, isDomain |-> FALSE, errorCode |-> Undefined,
   message |-> msg, text |-> <<name, ": ">> \o msg]

NoError == StringError(<<>>)

StorageUp == mongoDBConnection = "connected"

(***************************************************************************)
(* GNCDatabase.write* / readLast*.  oid is the ObjectId the driver gave    *)
(* the document when insertOne was called; fault says whether the storage  *)
(* call faults.  Each returns what the method does: threw/err, the value   *)
(* returned (ret), the database afterwards (db) and the number of storage  *)
(* calls it issued (calls).                                                *)
(***************************************************************************)
NoReading == [sensorValue |-> Undefined, seqNum |-> Undefined]

Threw(err, n) == [threw |-> TRUE, err |-> err, ret |-> NoReading, db |-> database, calls |-> n]

Wrote(db) == [threw |-> FALSE, err |-> NoError, ret |-> NoReading, db |-> db, calls |-> 1]

Returned(reading) ==
  [threw |-> FALSE, err |-> NoError, ret |-> reading, db |-> database, calls |-> 1]

WriteError(metric) ==
  StringError(<<"One or more errors in writing Database: ", databaseName,
                " Collection: ", metric>>)

ReadError(metric) ==
  StringError(<<"One or more errors in reading Database: ", databaseName,
                " Collection: ", metric>>)

NoDocumentError(method, sensorId) ==
  StringError(<<"No document satisfies the query - ", method, "() sensorID ", sensorId>>)

\* Mutant of writeTemp: the catch swallows the error of insertOne instead of
\* throwing.
writeTempSwallow(sensorId, sensorValue, seqNum, oid, fault) ==
  IF ~tempCollection THEN Wrote(database)
  ELSE IF fault \/ ~StorageUp THEN Wrote(database)
  ELSE Wrote(insertOne(database, oid, "Temperature", sensorId, sensorValue, seqNum))

writeTemp(sensorId, sensorValue, seqNum, oid, fault) ==
  IF ~tempCollection THEN Threw(WriteError("temperature"), 0)
  ELSE IF fault \/ ~StorageUp THEN Threw(WriteError("temperature"), 1)
  ELSE Wrote(insertOne(database, oid, "Temperature", sensorId, sensorValue, seqNum))

\* The try block of readLast*: what it throws or returns before the catch.
readLastTry(defined, name, method, sensorId, fault) ==
  IF ~defined THEN Threw(ErrorObject("TypeError", <<"Cannot read property 'findOne' of undefined">>), 0)
  ELSE IF fault \/ ~StorageUp THEN Threw(ErrorObject("MongoError", <<"storage fault">>), 1)
  ELSE LET document == findOne(name, sensorId)
       IN IF document = NoDocument THEN Threw(NoDocumentError(method, sensorId), 1)
          ELSE Returned([sensorValue |-> document.sensorValue, seqNum |-> document.seqNum])

\* Mutant of readLastTemp: the two fields of the document taken in the wrong order.
readLastTempSwapped(sensorId, fault) ==
  LET try == readLastTry(tempCollection, "Temperature", "readLastTemp", sensorId, fault)
  IN IF try.threw THEN Threw(ReadError("temperature"), try.calls)
     ELSE Returned([sensorValue |-> try.ret.seqNum, seqNum |-> try.ret.sensorValue])

readLastTemp(sensorId, fault) ==
  LET try == readLastTry(tempCollection, "Temperature", "readLastTemp", sensorId, fault)
  IN IF try.threw THEN Threw(ReadError("temperature"), try.calls) ELSE try

\* Mutant of writeDist: the error message copied from writeTemp unchanged.
writeDistAsTemp(sensorId, sensorValue, seqNum, oid, fault) ==
  IF ~distCollection THEN Threw(WriteError("temperature"), 0)
  ELSE IF fault \/ ~StorageUp THEN Threw(WriteError("temperature"), 1)
  ELSE Wrote(insertOne(database, oid, "Distance", sensorId, sensorValue, seqNum))

writeDist(sensorId, sensorValue, seqNum, oid, fault) ==
  IF ~distCollection THEN Threw(WriteError("distance"), 0)
  ELSE IF fault \/ ~StorageUp THEN Threw(WriteError("distance"), 1)
  ELSE Wrote(insertOne(database, oid, "Distance", sensorId, sensorValue, seqNum))

readLastDist(sensorId, fault) ==
  LET try == readLastTry(distCollection, "Distance", "readLastDist", sensorId, fault)
  IN IF try.threw THEN Threw(ReadError("distance"), try.calls) ELSE try

\* Mutant of writeSpeed: the insert made into the collection of writeDist.
writeSpeedIntoDist(sensorId, sensorValue, seqNum, oid, fault) ==
  IF ~speedCollection THEN Threw(WriteError("speed"), 0)
  ELSE IF fault \/ ~StorageUp THEN Threw(WriteError("speed"), 1)
  ELSE Wrote(insertOne(database, oid, "Distance", sensorId, sensorValue, seqNum))

writeSpeed(sensorId, sensorValue, seqNum, oid, fault) ==
  IF ~speedCollection THEN Threw(WriteError("speed"), 0)
  ELSE IF fault \/ ~StorageUp THEN Threw(WriteError("speed"), 1)
  ELSE Wrote(insertOne(database, oid, "Speed", sensorId, sensorValue, seqNum))

readLastSpeed(sensorId, fault) ==
  LET try == readLastTry(speedCollection, "Speed", "readLastSpeed", sensorId, fault)
  IN IF try.threw THEN Threw(ReadError("speed"), try.calls) ELSE try

\* Mutant of getError: the "EXISTS" case missing from the switch.
getErrorNoConflict(err) ==
  IF err.isDomain
  THEN [status |-> CASE err.errorCode = "NOT_FOUND" -> NOT_FOUND
                     [] OTHER -> BAD_REQUEST,
        code |-> err.errorCode,
        message |-> err.message]
  ELSE [status |-> SERVER_ERROR, code |-> "INTERNAL", message |-> err.text]

(***************************************************************************)
(* getError (pc_server.js): the status report sent for a caught error.     *)
(***************************************************************************)
getError(err) ==
  IF err.isDomain
  THEN [status |-> CASE err.errorCode = "NOT_FOUND" -> NOT_FOUND
                     [] err.errorCode = "EXISTS" -> CONFLICT
                     [] OTHER -> BAD_REQUEST,
        code |-> err.errorCode,
        message |-> err.message]
  ELSE [status |-> SERVER_ERROR, code |-> "INTERNAL", message |-> err.text]

(***************************************************************************)
(* Requests and responses.                                                 *)
(***************************************************************************)
WriteRoutes == {"setTemp", "setDist", "setSpeed"}
ReadRoutes == {"getTemp", "getDist", "getSpeed"}

\* The collection a route's store method works on.
Coll(route) ==
  CASE route \in {"getTemp", "setTemp"} -> "Temperature"
    [] route \in {"getDist", "setDist"} -> "Distance"
    [] OTHER -> "Speed"

\* The path literal of a route's handler.
Path(route) ==
  CASE route \in {"getTemp", "setTemp"} -> "/temp"
    [] route \in {"getDist", "setDist"} -> "/dist"
    [] OTHER -> "/speed"

\* The metric argument a write route hands to writeFile.
FileMetric(route) ==
  CASE route = "setTemp" -> "temp"
    [] route = "setDist" -> "dist"
    [] OTHER -> "speed"

\* Requests in flight for the same route and parameters are told apart by
\* rid: a new request takes the least number none of them has.
FreeRid(route, sensorId, value, seqNum) ==
  LET same == {x \in inflight : /\ x.route = route /\ x.sensorId = sensorId
                                /\ x.value = value /\ x.seqNum = seqNum}
  IN CHOOSE i \in 1..(Cardinality(same) + 1) :
       /\ \A x \in same : x.rid # i
       /\ \A j \in 1..(i - 1) : \E x \in same : x.rid = j

\* A request as the handler sees it, with the handler's position (pc), the
\* ObjectId of its pending insert (oid) and ghost fields: the storage and file
\* calls issued for it, whether one of them faulted, whether its insert ran
\* concurrently with another insert for the same sensor (raced) and, for a read,
\* whether the collection held a document of the sensor when it was read
\* (present) and the acknowledged write it was issued after; for /closeDB,
\* whether the connection had been closed before (wasClosed).
Request(route, sensorId, value, seqNum) ==
  [rid |-> FreeRid(route, sensorId, value, seqNum), route |-> route, sensorId |-> sensorId, value |-> value,
   seqNum |-> seqNum, pc |-> "start", oid |-> 0, calls |-> 0, fileCalls |-> 0,
   faulted |-> FALSE, raced |-> FALSE, present |-> FALSE, after |-> NoReading,
   wasClosed |-> FALSE]

NoRequest ==
  [rid |-> 0, route |-> "none", sensorId |-> Undefined, value |-> Undefined,
   seqNum |-> Undefined, pc |-> "start", oid |-> 0, calls |-> 0, fileCalls |-> 0,
   faulted |-> FALSE, raced |-> FALSE, present |-> FALSE, after |-> NoReading,
   wasClosed |-> FALSE]

\* res.json(body) / res.send(text) with the status code set before it.
Response(r, kind, statusCode, body) ==
  [req |-> r, kind |-> kind, statusCode |-> statusCode, body |-> body]

NoResponse == Response(NoRequest, "none", 0, [text |-> ""])

\* res.status(statusReport.status).json(statusReport)
ErrorResponse(r, err) ==
  LET statusReport == getError(err)
  IN Response(r, "json", statusReport.status, statusReport)

Key(r) == <<Coll(r.route), r.sensorId>>

Keys == CollectionNames \X PathSensors

(***************************************************************************)
(* Initial state: a constructed GNCDatabase, init() not yet called, an     *)
(* empty database and file log.                                            *)
(***************************************************************************)
NoReport == [status |-> 0, code |-> "", message |-> <<>>]

NoClear == [ran |-> FALSE, threw |-> FALSE, before |-> {}, listed |-> <<>>, drops |-> <<>>]

NoInstance == [made |-> FALSE, threw |-> FALSE, dbUrl |-> <<>>, databaseName |-> <<>>,
               serverUrl |-> <<>>]

\* The module as loaded: both regular expressions with lastIndex 0, no
\* GNCDatabase constructed.
InitConstructor ==
  /\ REG_DATABASE_NAME = 0
  /\ REG_SERVER_URL = 0
  /\ instance = NoInstance
  /\ constructions = 0

InitHarness ==
  /\ errIn = NoError /\ errOut = NoReport /\ clearOut = NoClear /\ InitConstructor
  /\ prior = EmptyDatabase

InitProgram ==
  /\ databaseName \in DbNames
  /\ mongoDBConnection = "null"
  /\ databaseConnection = FALSE
  /\ tempCollection = FALSE
  /\ distCollection = FALSE
  /\ speedCollection = FALSE
  /\ database = EmptyDatabase
  /\ nextId = 1
  /\ fileLog = <<>>
  /\ initPc = [phase |-> "connect", i |-> 0]
  /\ inflight = {}
  /\ nreq = 0
  /\ lastRes = NoResponse
  /\ untouched = {}
  /\ overlapped = {}
  /\ lastAck = [k \in Keys |-> NoReading]
  /\ created = {}

Init == InitProgram /\ InitHarness

programVars == <<databaseName, mongoDBConnection, databaseConnection, tempCollection,
                 distCollection, speedCollection, database, nextId, fileLog, initPc,
                 inflight, nreq, lastRes, untouched, overlapped, lastAck, created>>

(***************************************************************************)
(* GNCDatabase.init(), one action per await.                               *)
(***************************************************************************)
\* Mutant of initConnect: no process.exit() when the client reports that it is
\* not connected.
initConnectNoExit ==
  /\ initPc.phase = "connect"
  /\ \E outcome \in {"connected", "threw", "notConnected"} :
       IF outcome # "threw"
       THEN /\ mongoDBConnection' = IF outcome = "connected" THEN "connected" ELSE "closed"
            /\ databaseConnection' = TRUE
            /\ initPc' = [phase |-> "create", i |-> 1]
       ELSE /\ mongoDBConnection' = "null"
            /\ databaseConnection' = FALSE
            /\ initPc' = [phase |-> "exited", i |-> 0]
  /\ UNCHANGED <<databaseName, tempCollection, distCollection, speedCollection, database,
                 nextId, fileLog, inflight, nreq, lastRes, ghostVars, harnessVars>>

\* mongo.connect(): a throw, or a client that is not connected, ends the process.
initConnect ==
  /\ initPc.phase = "connect"
  /\ \E outcome \in {"connected", "threw", "notConnected"} :
       IF outcome = "connected"
       THEN /\ mongoDBConnection' = "connected"
            /\ databaseConnection' = TRUE
            /\ initPc' = [phase |-> "create", i |-> 1]
       ELSE /\ mongoDBConnection' = IF outcome = "threw" THEN "null" ELSE "closed"
            /\ databaseConnection' = FALSE
            /\ initPc' = [phase |-> "exited", i |-> 0]
  /\ UNCHANGED <<databaseName, tempCollection, distCollection, speedCollection, database,
                 nextId, fileLog, inflight, nreq, lastRes, ghostVars, harnessVars>>

\* Mutant of createCollection: an existing collection is replaced by an empty one.
createCollectionFresh(db, name) ==
  [n \in DOMAIN db \cup {name} |-> IF n = name THEN <<>> ELSE db[n]]

\* createCollection(name): creates the collection when it does not exist.
createCollection(db, name) ==
  [n \in DOMAIN db \cup {name} |-> IF n \in DOMAIN db THEN db[n] ELSE <<>>]

initCreate ==
  /\ initPc.phase = "create"
  /\ \E fault \in BOOLEAN :
       IF fault
       THEN /\ initPc' = [phase |-> "rejected", i |-> 0]
            /\ UNCHANGED <<database, tempCollection, distCollection, speedCollection>>
       ELSE /\ initPc' = IF initPc.i < 3 THEN [initPc EXCEPT !.i = @ + 1]
                         ELSE [phase |-> "seed", i |-> 1]
            /\ database' = createCollection(database,
                              <<"Temperature", "Distance", "Speed">>[initPc.i])
            /\ tempCollection' = (tempCollection \/ initPc.i = 1)
            /\ distCollection' = (distCollection \/ initPc.i = 2)
            /\ speedCollection' = (speedCollection \/ initPc.i = 3)
  /\ UNCHANGED <<databaseName, mongoDBConnection, databaseConnection, nextId, fileLog,
                 inflight, nreq, lastRes, ghostVars, harnessVars>>

\* The twelve seed writes: writeTemp('1','-1','0') ... writeSpeed('4','-1','0').
initSeedWrite(i, fault) ==
  LET sensorId == SeedSensors[((i - 1) % 4) + 1]
  IN CASE i <= 4 -> writeTemp(sensorId, "-1", "0", nextId, fault)
       [] i <= 8 -> writeDist(sensorId, "-1", "0", nextId, fault)
       [] OTHER -> writeSpeed(sensorId, "-1", "0", nextId, fault)

initSeed ==
  /\ initPc.phase = "seed"
  /\ \E fault \in BOOLEAN :
       LET w == initSeedWrite(initPc.i, fault)
       IN /\ database' = w.db
          /\ nextId' = nextId + 1
          /\ initPc' = IF w.threw THEN [phase |-> "rejected", i |-> 0]
                       ELSE IF initPc.i < 12 THEN [initPc EXCEPT !.i = @ + 1]
                       ELSE [phase |-> "done", i |-> 0]
          /\ untouched' = IF ~w.threw /\ initPc.i = 12 THEN Keys ELSE untouched
  /\ UNCHANGED <<databaseName, mongoDBConnection, databaseConnection, tempCollection,
                 distCollection, speedCollection, fileLog, inflight, nreq, lastRes,
                 overlapped, lastAck, created, harnessVars>>

Serving == initPc.phase = "done" /\ nreq < MaxRequests

(***************************************************************************)
(* The write routes: setTemp, setDist, setSpeed.                           *)
(***************************************************************************)
\* Mutant of Missing: only the absent parameter is rejected, not the empty one.
MissingOnlyUndefined(param) == param = Undefined

Missing(param) == param = Undefined \/ param = ""

BadRequest(example) == DomainError("BAD_REQUEST", <<"Incorrect url, try like > ", example>>)

WriteExample(route) ==
  CASE route = "setTemp" -> "/temp?sensorId=1&value=26&seqNum=0"
    [] route = "setDist" -> "/dist?sensorId=1&value=26&seqNum=0"
    [] OTHER -> "/speed?sensorId=1&value=26&seqNum=0"

ReadExample(route) ==
  CASE route = "getTemp" -> "/temp/1"
    [] route = "getDist" -> "/dist/1"
    [] OTHER -> "/speed/1"

\* The store method each route awaits.
write(route, sensorId, value, seqNum, oid, fault) ==
  CASE route = "setTemp" -> writeTemp(sensorId, value, seqNum, oid, fault)
    [] route = "setDist" -> writeDist(sensorId, value, seqNum, oid, fault)
    [] OTHER -> writeSpeed(sensorId, value, seqNum, oid, fault)

readLast(route, sensorId, fault) ==
  CASE route = "getTemp" -> readLastTemp(sensorId, fault)
    [] route = "getDist" -> readLastDist(sensorId, fault)
    [] OTHER -> readLastSpeed(sensorId, fault)

\* Mutant of setValidate: the call of writeFile left out, the insert issued at once.
setValidateNoFile(route, sensorId, value, seqNum) ==
  /\ Serving
  /\ nreq' = nreq + 1
  /\ LET r == Request(route, sensorId, value, seqNum)
     IN IF Missing(sensorId) \/ Missing(value) \/ Missing(seqNum)
        THEN /\ lastRes' = ErrorResponse(r, BadRequest(WriteExample(route)))
             /\ UNCHANGED <<inflight, nextId>>
        ELSE /\ inflight' = inflight \cup {[r EXCEPT !.pc = "db", !.oid = nextId]}
             /\ nextId' = nextId + 1
             /\ lastRes' = NoResponse
  /\ UNCHANGED <<databaseName, mongoDBConnection, databaseConnection, tempCollection,
                 distCollection, speedCollection, database, fileLog, initPc,
                 ghostVars, harnessVars>>

\* The handler up to its first await: the parameter check, then the call of
\* processor.writeFile(metric, sensorId, value).
setValidate(route, sensorId, value, seqNum) ==
  /\ Serving
  /\ nreq' = nreq + 1
  /\ LET r == Request(route, sensorId, value, seqNum)
     IN IF Missing(sensorId) \/ Missing(value) \/ Missing(seqNum)
        THEN /\ lastRes' = ErrorResponse(r, BadRequest(WriteExample(route)))
             /\ UNCHANGED inflight
        ELSE /\ inflight' = inflight \cup {[r EXCEPT !.pc = "file", !.fileCalls = 1]}
             /\ lastRes' = NoResponse
  /\ UNCHANGED <<databaseName, mongoDBConnection, databaseConnection, tempCollection,
                 distCollection, speedCollection, database, nextId, fileLog, initPc,
                 ghostVars, harnessVars>>

\* Inserts for the same collection and sensor that are pending while r's is.
Racing(r) == {x \in inflight \ {r} : x.route \in WriteRoutes /\ x.pc = "db" /\ Key(x) = Key(r)}

\* Mutant of setWriteFile: the try/catch of the handler left out, so that a
\* failure of writeFile ends the handler without an answer.
setWriteFileSilent(route) ==
  \E r \in inflight : \E fault \in BOOLEAN :
    /\ r.route = route /\ r.pc = "file"
    /\ IF fault
       THEN /\ lastRes' = NoResponse
            /\ inflight' = inflight \ {r}
            /\ UNCHANGED <<fileLog, nextId, lastAck>>
       ELSE /\ fileLog' = Append(fileLog, <<FileMetric(route), r.sensorId, r.value>>)
            /\ nextId' = nextId + 1
            /\ inflight' =
                 {IF x \in Racing(r) THEN [x EXCEPT !.raced = TRUE] ELSE x : x \in inflight \ {r}}
                 \cup {[r EXCEPT !.pc = "db", !.oid = nextId, !.raced = (Racing(r) # {})]}
            /\ lastAck' = [lastAck EXCEPT ![Key(r)] = NoReading]
            /\ lastRes' = NoResponse
    /\ UNCHANGED <<databaseName, mongoDBConnection, databaseConnection, tempCollection,
                   distCollection, speedCollection, database, initPc, nreq, untouched,
                   overlapped, created, harnessVars>>

\* writeFile settles: a failure is answered through getError; otherwise the
\* entry is in the file log and the store's write method calls insertOne.
setWriteFile(route) ==
  \E r \in inflight : \E fault \in BOOLEAN :
    /\ r.route = route /\ r.pc = "file"
    /\ IF fault
       THEN /\ lastRes' = ErrorResponse([r EXCEPT !.faulted = TRUE],
                                        ErrorObject("Error", <<"writeFile failed">>))
            /\ inflight' = inflight \ {r}
            /\ UNCHANGED <<fileLog, nextId, lastAck>>
       ELSE /\ fileLog' = Append(fileLog, <<FileMetric(route), r.sensorId, r.value>>)
            /\ nextId' = nextId + 1
            /\ inflight' =
                 {IF x \in Racing(r) THEN [x EXCEPT !.raced = TRUE] ELSE x : x \in inflight \ {r}}
                 \cup {[r EXCEPT !.pc = "db", !.oid = nextId, !.raced = (Racing(r) # {})]}
            /\ lastAck' = [lastAck EXCEPT ![Key(r)] = NoReading]
            /\ lastRes' = NoResponse
    /\ UNCHANGED <<databaseName, mongoDBConnection, databaseConnection, tempCollection,
                   distCollection, speedCollection, database, initPc, nreq, untouched,
                   overlapped, created, harnessVars>>

\* The store's write method settles and the handler answers.
setWrite(route) ==
  \E r \in inflight : \E fault \in BOOLEAN :
    /\ r.route = route /\ r.pc = "db"
    /\ LET w == write(route, r.sensorId, r.value, r.seqNum, r.oid, fault)
           q == [r EXCEPT !.calls = w.calls, !.faulted = (fault \/ ~StorageUp)]
       IN /\ database' = w.db
          /\ inflight' = inflight \ {r}
          /\ IF w.threw
             THEN /\ lastRes' = ErrorResponse(q, w.err)
                  /\ UNCHANGED ghostVars
             ELSE /\ lastRes' = Response(q, "json", CREATED,
                        [URL |-> <<Path(route), "?sensorId=", r.sensorId, "&value=", r.value,
                                   "&seqNum=", r.seqNum>>])
                  /\ untouched' = untouched \ {Key(r)}
                  /\ overlapped' = IF r.raced THEN overlapped \cup {Key(r)}
                                   ELSE overlapped \ {Key(r)}
                  /\ lastAck' = [lastAck EXCEPT ![Key(r)] =
                        IF r.raced THEN NoReading
                        ELSE [sensorValue |-> r.value, seqNum |-> r.seqNum]]
                  /\ created' = created \cup {Query(r.sensorId, r.value, r.seqNum)
                                                @@ [route |-> route]}
    /\ UNCHANGED <<databaseName, mongoDBConnection, databaseConnection, tempCollection,
                   distCollection, speedCollection, nextId, fileLog, initPc, nreq,
                   harnessVars>>

setTemp == \E q \in Queries : setValidate("setTemp", q.sensorId, q.value, q.seqNum)
setTemp_writeFile == setWriteFile("setTemp")
setTemp_writeTemp == setWrite("setTemp")

setDist == \E q \in Queries : setValidate("setDist", q.sensorId, q.value, q.seqNum)
setDist_writeFile == setWriteFile("setDist")
setDist_writeDist == setWrite("setDist")

setSpeed == \E q \in Queries : setValidate("setSpeed", q.sensorId, q.value, q.seqNum)
setSpeed_writeFile == setWriteFile("setSpeed")
setSpeed_writeSpeed == setWrite("setSpeed")

(***************************************************************************)
(* The read routes: getTemp, getDist, getSpeed.  Express matches           *)
(* /<metric>/:sensorId only with a non-empty segment.                      *)
(***************************************************************************)
getValidate(route, sensorId) ==
  /\ Serving
  /\ nreq' = nreq + 1
  /\ LET r == Request(route, sensorId, Undefined, Undefined)
     IN IF Missing(sensorId)
        THEN /\ lastRes' = ErrorResponse(r, BadRequest(ReadExample(route)))
             /\ UNCHANGED inflight
        ELSE /\ inflight' = inflight \cup {[r EXCEPT !.pc = "db", !.after = lastAck[Key(r)]]}
             /\ lastRes' = NoResponse
  /\ UNCHANGED <<databaseName, mongoDBConnection, databaseConnection, tempCollection,
                 distCollection, speedCollection, database, nextId, fileLog, initPc,
                 ghostVars, harnessVars>>

\* The store's readLast method settles and the handler answers.  The ghost field
\* after keeps the acknowledged write only if no insert for the sensor was
\* issued since.
getRead(route) ==
  \E r \in inflight : \E fault \in BOOLEAN :
    /\ r.route = route /\ r.pc = "db"
    /\ LET rd == readLast(route, r.sensorId, fault)
           q == [r EXCEPT !.calls = rd.calls, !.faulted = (fault \/ ~StorageUp),
                          !.present = (\E i \in 1..Len(Documents(Coll(route))) :
                                         Documents(Coll(route))[i].sensorID = r.sensorId),
                          !.after = IF lastAck[Key(r)] = r.after THEN r.after ELSE NoReading]
       IN /\ inflight' = inflight \ {r}
          /\ lastRes' = IF rd.threw THEN ErrorResponse(q, rd.err)
                        ELSE Response(q, "json", OK, rd.ret)
    /\ UNCHANGED <<databaseName, mongoDBConnection, databaseConnection, tempCollection,
                   distCollection, speedCollection, database, nextId, fileLog, initPc, nreq,
                   ghostVars, harnessVars>>

getTemp == \E s \in PathSensors : getValidate("getTemp", s)
getTemp_readLastTemp == getRead("getTemp")

getDist == \E s \in PathSensors : getValidate("getDist", s)
getDist_readLastDist == getRead("getDist")

getSpeed == \E s \in PathSensors : getValidate("getSpeed", s)
getSpeed_readLastSpeed == getRead("getSpeed")

(***************************************************************************)
(* getIPAddr, closeDatabase, clearDatabase and the catch-all doErrors.     *)
(***************************************************************************)
\* processor.readFile("IP_Addr.txt") touches nothing of the store, so the
\* handler's suspension at it is not modelled as a separate step.
getIPAddr ==
  /\ Serving
  /\ nreq' = nreq + 1
  /\ \E fault \in BOOLEAN :
       LET r == [Request("getIPAddr", Undefined, Undefined, Undefined)
                   EXCEPT !.fileCalls = 1, !.faulted = fault]
       IN lastRes' = IF fault THEN ErrorResponse(r, ErrorObject("Error", <<"readFile failed">>))
                     ELSE Response(r, "json", OK, [ip |-> <<"192.168.0.2">>])
  /\ UNCHANGED <<databaseName, mongoDBConnection, databaseConnection, tempCollection,
                 distCollection, speedCollection, database, nextId, fileLog, initPc,
                 inflight, ghostVars, harnessVars>>

\* Mutant of close: the check of mongoDBConnection against null left out, so
\* that close() is called on the undefined connection.
closeUnguarded(fault) ==
  IF mongoDBConnection # "null"
  THEN IF fault THEN [threw |-> TRUE, conn |-> mongoDBConnection, calls |-> 1]
       ELSE [threw |-> FALSE, conn |-> "closed", calls |-> 1]
  ELSE [threw |-> TRUE, conn |-> mongoDBConnection, calls |-> 0]

\* GNCDatabase.close(): the connection afterwards, whether close threw, and the
\* number of calls of the driver's close().
close(fault) ==
  IF mongoDBConnection # "null"
  THEN IF fault THEN [threw |-> TRUE, conn |-> mongoDBConnection, calls |-> 1]
       ELSE [threw |-> FALSE, conn |-> "closed", calls |-> 1]
  ELSE [threw |-> FALSE, conn |-> mongoDBConnection, calls |-> 0]

closeDatabase ==
  /\ Serving
  /\ nreq' = nreq + 1
  /\ \E fault \in BOOLEAN :
       LET c == close(fault)
           r == [Request("closeDatabase", Undefined, Undefined, Undefined)
                   EXCEPT !.faulted = fault, !.calls = c.calls,
                          !.wasClosed = (mongoDBConnection = "closed")]
       IN /\ mongoDBConnection' = c.conn
          /\ lastRes' = Response(r, "text", OK, [text |-> IF c.threw THEN "BAD" ELSE "GOOD"])
  /\ UNCHANGED <<databaseName, databaseConnection, tempCollection, distCollection,
                 speedCollection, database, nextId, fileLog, initPc, inflight, ghostVars,
                 harnessVars>>

\* The handler calls app.locals.pcDatabase.clearDatabase(), which GNCDatabase
\* does not define: the call throws a TypeError, caught by the handler.
clearDatabase ==
  /\ Serving
  /\ nreq' = nreq + 1
  /\ lastRes' = Response(Request("clearDatabase", Undefined, Undefined, Undefined),
                         "text", OK, [text |-> "BAD"])
  /\ UNCHANGED <<databaseName, mongoDBConnection, databaseConnection, tempCollection,
                 distCollection, speedCollection, database, nextId, fileLog, initPc,
                 inflight, ghostVars, harnessVars>>

\* GNCDatabase.clear().  listCollections() gives the collections of the
\* database (all of them, in the server's order); the loop takes the entries
\* <<index, name>> of the array of names one by one, until iter.next().value is
\* undefined, and drops each.  faultAt is the drop at which storage faults (0:
\* none).  The result: whether clear() threw, the database afterwards, the
\* names listed and the names dropped, in order.
KeysOf(names) == {k \in Keys : k[1] \in names}

Listing == <<"Temperature", "Distance", "Speed", "Archive", "Log">>

\* Mutant of listCollections: only the three collections the store knows.
listCollectionsKnown(db) ==
  SelectSeq(<<"Temperature", "Distance", "Speed">>, LAMBDA n : n \in DOMAIN db)

listCollections(db) == SelectSeq(Listing, LAMBDA n : n \in DOMAIN db)

entries(names) == [i \in 1..Len(names) |-> <<i - 1, names[i]>>]

dropCollection(db, name) == [n \in DOMAIN db \ {name} |-> db[n]]

RECURSIVE clearLoop(_, _, _, _, _)
clearLoop(db, iter, i, faultAt, drops) ==
  IF i > Len(iter) THEN [threw |-> FALSE, db |-> db, drops |-> drops]
  ELSE IF i = faultAt THEN [threw |-> TRUE, db |-> db, drops |-> drops]
  ELSE LET collectionEntry == iter[i]
       IN clearLoop(dropCollection(db, collectionEntry[2]), iter, i + 1, faultAt,
                    Append(drops, collectionEntry[2]))

clearRun(db, faultAt) ==
  IF ~databaseConnection
  THEN [threw |-> FALSE, db |-> db, listed |-> <<>>, drops |-> <<>>]
  ELSE IF ~StorageUp
  THEN [threw |-> TRUE, db |-> db, listed |-> <<>>, drops |-> <<>>]
  ELSE LET collectionArray == listCollections(db)
           loop == clearLoop(db, entries(collectionArray), 1, faultAt, <<>>)
       IN [threw |-> loop.threw, db |-> loop.db, listed |-> collectionArray,
           drops |-> loop.drops]

\* clear() called on the database object of the running service.
clear ==
  /\ Serving
  /\ nreq' = nreq + 1
  /\ \E faultAt \in 0..Len(listCollections(database)) :
       LET c == clearRun(database, faultAt)
           dropped == DOMAIN database \ DOMAIN c.db
       IN /\ database' = c.db
          /\ untouched' = untouched \cup KeysOf(dropped)
          /\ overlapped' = overlapped \ KeysOf(dropped)
          /\ lastAck' = [k \in Keys |-> IF k \in KeysOf(dropped) THEN NoReading ELSE lastAck[k]]
          /\ created' = {w \in created : Coll(w.route) \notin dropped}
  /\ lastRes' = NoResponse
  /\ UNCHANGED <<databaseName, mongoDBConnection, databaseConnection, tempCollection,
                 distCollection, speedCollection, nextId, fileLog, initPc, inflight,
                 harnessVars>>

\* app.use(doErrors()): errors handed to next(err), here those of
\* bodyParser.json() (a SyntaxError for a malformed body, or another error
\* such as PayloadTooLargeError).
doErrors ==
  /\ Serving
  /\ nreq' = nreq + 1
  /\ \E err \in {ErrorObject("SyntaxError", <<"Unexpected token">>),
                 ErrorObject("PayloadTooLargeError", <<"request entity too large">>)} :
       LET r == Request("bodyParser", Undefined, Undefined, Undefined)
       IN lastRes' = IF err.type = "SyntaxError"
                     THEN Response(r, "json", BAD_REQUEST,
                            [error |-> "Invalid JSON",
                             tips |-> "Check if body has correct JSON syntax"])
                     ELSE Response(r, "json", SERVER_ERROR,
                            [code |-> "SERVER_ERROR", message |-> err.message])
  /\ UNCHANGED <<databaseName, mongoDBConnection, databaseConnection, tempCollection,
                 distCollection, speedCollection, database, nextId, fileLog, initPc,
                 inflight, ghostVars, harnessVars>>

(***************************************************************************)
(* The service.                                                            *)
(***************************************************************************)
Next ==
  \/ initConnect \/ initCreate \/ initSeed
  \/ setTemp \/ setTemp_writeFile \/ setTemp_writeTemp
  \/ setDist \/ setDist_writeFile \/ setDist_writeDist
  \/ setSpeed \/ setSpeed_writeFile \/ setSpeed_writeSpeed
  \/ getTemp \/ getTemp_readLastTemp
  \/ getDist \/ getDist_readLastDist
  \/ getSpeed \/ getSpeed_readLastSpeed
  \/ getIPAddr \/ closeDatabase \/ clearDatabase \/ clear \/ doErrors

Spec == Init /\ [][Next]_vars

\* The service when every storage and file call a handler awaits eventually
\* returns or throws.
SpecLive ==
  /\ Spec
  /\ WF_vars(setTemp_writeFile) /\ WF_vars(setTemp_writeTemp)
  /\ WF_vars(setDist_writeFile) /\ WF_vars(setDist_writeDist)
  /\ WF_vars(setSpeed_writeFile) /\ WF_vars(setSpeed_writeSpeed)
  /\ WF_vars(getTemp_readLastTemp)
  /\ WF_vars(getDist_readLastDist)
  /\ WF_vars(getSpeed_readLastSpeed)

(***************************************************************************)
(* getError on its own: every kind of thrown value is handed to it.        *)
(***************************************************************************)
ErrorCodes == {"NOT_FOUND", "EXISTS", "BAD_REQUEST", "FORBIDDEN", Undefined}
ErrorMessages == {<<"m1">>, <<"m2", "99">>, <<>>, <<Undefined>>}

ErrorInputs ==
  {[DomainError(c, m) EXCEPT !.isDomain = d] : c \in ErrorCodes, m \in ErrorMessages, d \in BOOLEAN}
  \cup {StringError(m) : m \in ErrorMessages}
  \cup {ErrorObject(n, m) : n \in {"Error", "TypeError"}, m \in ErrorMessages}

InitGetError ==
  /\ InitProgram /\ errIn \in ErrorInputs /\ errOut = NoReport /\ clearOut = NoClear
  /\ InitConstructor /\ prior = EmptyDatabase

applyGetError ==
  /\ errOut = NoReport
  /\ errOut' = getError(errIn)
  /\ UNCHANGED <<errIn, clearOut, constructorVars, prior, programVars>>

NextGetError == applyGetError

SpecGetError == InitGetError /\ [][NextGetError]_vars

(***************************************************************************)
(* clear() on its own: run once on a database object that never connected  *)
(* or is connected, against a database holding any of the collections of   *)
(* Listing.                                                                *)
(***************************************************************************)
ClearDatabases == {[n \in names |-> <<>>] : names \in SUBSET {Listing[i] : i \in 1..Len(Listing)}}

InitClear ==
  /\ databaseName \in DbNames
  /\ databaseConnection \in BOOLEAN
  /\ mongoDBConnection = (IF databaseConnection THEN "connected" ELSE "null")
  /\ tempCollection = databaseConnection
  /\ distCollection = databaseConnection
  /\ speedCollection = databaseConnection
  /\ database \in ClearDatabases
  /\ nextId = 1
  /\ fileLog = <<>>
  /\ initPc = [phase |-> (IF databaseConnection THEN "done" ELSE "connect"), i |-> 0]
  /\ inflight = {}
  /\ nreq = 0
  /\ lastRes = NoResponse
  /\ untouched = {}
  /\ overlapped = {}
  /\ lastAck = [k \in Keys |-> NoReading]
  /\ created = {}
  /\ errIn = NoError
  /\ errOut = NoReport
  /\ clearOut = NoClear
  /\ InitConstructor
  /\ prior = database

applyClear ==
  /\ ~clearOut.ran
  /\ \E faultAt \in 0..Len(listCollections(database)) :
       LET c == clearRun(database, faultAt)
       IN /\ database' = c.db
          /\ clearOut' = [ran |-> TRUE, threw |-> c.threw, before |-> DOMAIN database,
                          listed |-> c.listed, drops |-> c.drops]
  /\ UNCHANGED <<databaseName, mongoDBConnection, databaseConnection, tempCollection,
                 distCollection, speedCollection, nextId, fileLog, initPc, inflight,
                 nreq, lastRes, ghostVars, errIn, errOut, constructorVars, prior>>

NextClear == applyClear

SpecClear == InitClear /\ [][NextClear]_vars

(***************************************************************************)
(* init() after a restart: the process starts against a database that      *)
(* holds the readings earlier runs wrote (up to MaxPrior of them, inserted  *)
(* one after the other), and runs init().                                  *)
(***************************************************************************)
PriorWrites ==
  {<<"Temperature", "1", "26", "5">>, <<"Temperature", "99", "7", "0">>,
   <<"Speed", "99", "26", "5">>}

PriorRuns == UNION {[1..n -> PriorWrites] : n \in 0..MaxPrior}

RECURSIVE Restored(_, _)
Restored(ws, n) ==
  IF n = 0 THEN EmptyDatabase
  ELSE insertOne(Restored(ws, n - 1), n, ws[n][1], ws[n][2], ws[n][3], ws[n][4])

InitRestart ==
  /\ databaseName \in DbNames
  /\ mongoDBConnection = "null"
  /\ databaseConnection = FALSE
  /\ tempCollection = FALSE
  /\ distCollection = FALSE
  /\ speedCollection = FALSE
  /\ \E ws \in PriorRuns :
       /\ database = Restored(ws, Len(ws))
       /\ nextId = Len(ws) + 1
  /\ prior = database
  /\ fileLog = <<>>
  /\ initPc = [phase |-> "connect", i |-> 0]
  /\ inflight = {}
  /\ nreq = 0
  /\ lastRes = NoResponse
  /\ untouched = {}
  /\ overlapped = {}
  /\ lastAck = [k \in Keys |-> NoReading]
  /\ created = {}
  /\ errIn = NoError
  /\ errOut = NoReport
  /\ clearOut = NoClear
  /\ InitConstructor

NextRestart == initConnect \/ initCreate \/ initSeed

SpecRestart == InitRestart /\ [][NextRestart]_vars

(***************************************************************************)
(* The constructor on its own.  A string is a sequence of characters; an   *)
(* index into it is counted from 0, as lastIndex is.  Both regular         *)
(* expressions carry the g flag: exec starts its search at lastIndex, sets *)
(* lastIndex to the end of the match, and to 0 when nothing matches.       *)
(***************************************************************************)
WordChars == {"m", "h", "d", "b", "g", "1"}

Urls ==
  {<<"m", ":", "/", "/", "h", "/", "d", "b">>,
   <<"m", ":", "/", "/", "h", ":", "1", "/", "g">>,
   <<"h", "/", "g">>,
   <<"h", "/", "d", "/", "b">>,
   <<"m", ":", "/", "/", "h", "/">>,
   <<"h">>}

NoMatch == [matched |-> FALSE, group |-> <<>>, lastIndex |-> 0]

\* REG_DATABASE_NAME.exec(str) with REG_DATABASE_NAME = /\/(\w+)$/g: the first
\* index from lastIndex on with a '/' followed by word characters up to the end.
execDatabaseName(str, lastIndex) ==
  LET starts == {k \in lastIndex..(Len(str) - 1) :
                   /\ str[k + 1] = "/"
                   /\ k + 1 < Len(str)
                   /\ \A j \in (k + 2)..Len(str) : str[j] \in WordChars}
  IN IF starts = {} THEN NoMatch
     ELSE LET k == CHOOSE x \in starts : \A y \in starts : x <= y
          IN [matched |-> TRUE, group |-> SubSeq(str, k + 2, Len(str)),
              lastIndex |-> Len(str)]

\* REG_SERVER_URL.exec(str) with REG_SERVER_URL = /(^.*)\//g: ^ matches at index
\* 0 only, so a search that starts later finds nothing; .* is greedy, so the
\* match ends with the last '/'.
execServerUrl(str, lastIndex) ==
  LET slashes == {p \in 1..Len(str) : str[p] = "/"}
  IN IF lastIndex # 0 \/ slashes = {} THEN NoMatch
     ELSE LET p == CHOOSE x \in slashes : \A y \in slashes : y <= x
          IN [matched |-> TRUE, group |-> SubSeq(str, 1, p - 1), lastIndex |-> p]

\* new GNCDatabase(dbUrl): destructuring the null of a failed exec throws a
\* TypeError, before the statements after it run.
constructor ==
  /\ constructions < MaxConstructions
  /\ constructions' = constructions + 1
  /\ \E dbUrl \in Urls :
       LET name == execDatabaseName(dbUrl, REG_DATABASE_NAME)
           server == execServerUrl(dbUrl, REG_SERVER_URL)
           failed == [made |-> TRUE, threw |-> TRUE, dbUrl |-> dbUrl,
                      databaseName |-> <<>>, serverUrl |-> <<>>]
       IN /\ REG_DATABASE_NAME' = name.lastIndex
          /\ IF ~name.matched
             THEN /\ instance' = failed
                  /\ UNCHANGED REG_SERVER_URL
             ELSE /\ REG_SERVER_URL' = server.lastIndex
                  /\ instance' = IF ~server.matched THEN failed
                                 ELSE [made |-> TRUE, threw |-> FALSE, dbUrl |-> dbUrl,
                                       databaseName |-> name.group,
                                       serverUrl |-> server.group]
  /\ UNCHANGED <<programVars, errIn, errOut, clearOut, prior>>

NextConstructor == constructor

SpecConstructor == Init /\ [][NextConstructor]_vars

(***************************************************************************)
(* Properties.                                                             *)
(***************************************************************************)
AllSensors == {"1", "2", "3", "4", "99"}
MetricNames == {"temperature", "distance", "speed"}

MetricOf(route) ==
  CASE route \in {"getTemp", "setTemp"} -> "temperature"
    [] route \in {"getDist", "setDist"} -> "distance"
    [] OTHER -> "speed"

Tokens(text) == {text[i] : i \in 1..Len(text)}

Absent(param) == param = Undefined \/ param = ""

Complete(r) == ~Absent(r.sensorId) /\ ~Absent(r.value) /\ ~Absent(r.seqNum)

\* The positions of the sensor's documents in a collection, in insertion order.
Hits(name, s) == {i \in 1..Len(Documents(name)) : Documents(name)[i].sensorID = s}

\* The document of the sensor inserted last into the collection.
LastInserted(name, s) ==
  LET hits == Hits(name, s)
  IN Documents(name)[CHOOSE i \in hits : \A j \in hits : j <= i]

EchoUrl(r) ==
  <<(CASE r.route = "setTemp" -> "/temp" [] r.route = "setDist" -> "/dist" [] OTHER -> "/speed"),
    "?sensorId=", r.sensorId, "&value=", r.value, "&seqNum=", r.seqNum>>

\* C1: a write request with all three parameters given, whose file-log and
\* storage calls succeed, is answered 201 with body {URL: the request echoed};
\* and a read request issued after the 201 answer of a write of (v, n) to the
\* same metric and sensor, with no other write to that sensor issued or pending
\* from that write to the read, and whose storage call succeeds, is answered 200
\* with body {sensorValue: v, seqNum: n}.
C1_WriteThenRead ==
  LET r == lastRes.req
  IN /\ (r.route \in WriteRoutes /\ Complete(r) /\ ~r.faulted)
          => /\ lastRes.statusCode = 201
             /\ lastRes.kind = "json"
             /\ lastRes.body = [URL |-> EchoUrl(r)]
     /\ (r.route \in ReadRoutes /\ r.after # NoReading /\ ~r.faulted)
          => /\ lastRes.statusCode = 200
             /\ lastRes.kind = "json"
             /\ lastRes.body = r.after

\* C1 witness: GET /temp/1 answered 200 {sensorValue: "26", seqNum: "5"} after
\* the acknowledged write /temp?sensorId=1&value=26&seqNum=5.
C1_Witness ==
  /\ lastRes.req.route = "getTemp"
  /\ lastRes.req.sensorId = "1"
  /\ ~lastRes.req.faulted
  /\ lastRes.req.after = [sensorValue |-> "26", seqNum |-> "5"]
  /\ lastRes.statusCode = 200
  /\ <<"temp", "1", "26">> \in Tokens(fileLog)

\* C2: whenever the appends to a metric's collection for a sensor did not run
\* concurrently with one another, readLast<M>(S) returns the value and seqNum of
\* the document inserted last for S, whatever the seqNum values are.
C2_LastInsertWins ==
  \A route \in ReadRoutes, s \in AllSensors :
    (Hits(Coll(route), s) # {} /\ StorageUp /\ <<Coll(route), s>> \notin overlapped)
      => LET rd == readLast(route, s, FALSE)
             last == LastInserted(Coll(route), s)
         IN /\ ~rd.threw
            /\ rd.ret = [sensorValue |-> last.sensorValue, seqNum |-> last.seqNum]

\* C2 witness: sensor 1 of Temperature holds the seed (seqNum 0), then a write
\* with seqNum 5, then a write with seqNum 0, with the seeds of the other
\* sensors in between, and readLastTemp returns the third.
C2_Witness ==
  /\ StorageUp
  /\ <<"Temperature", "1">> \notin overlapped
  /\ Cardinality(Hits("Temperature", "1")) = 3
  /\ Len(Documents("Temperature")) = 6
  /\ Documents("Temperature")[5].seqNum = "5"
  /\ Documents("Temperature")[6].seqNum = "0"
  /\ readLastTemp("1", FALSE).ret = [sensorValue |-> "7", seqNum |-> "0"]

\* C3: a read request for a sensor with no document in the metric's collection,
\* while the storage call itself succeeds, is answered 404 with body
\* {status: 404, code: "NOT_FOUND", message containing the sensor id}.
C3_NotFound404 ==
  LET r == lastRes.req
  IN (r.route \in ReadRoutes /\ r.pc = "db" /\ ~r.faulted /\ ~r.present)
       => /\ lastRes.statusCode = 404
          /\ lastRes.body.status = 404
          /\ lastRes.body.code = "NOT_FOUND"
          /\ r.sensorId \in Tokens(lastRes.body.message)

\* An error that tells the caller that no reading was found.
IsNotFound(err) ==
  \/ err.isDomain /\ err.errorCode = "NOT_FOUND"
  \/ "No document satisfies the query - " \in Tokens(err.text)

\* C4: after init(), for every metric and sensor with no request append since
\* init() or the last clear(), readLast<M>(S) returns the seed
\* {sensorValue: "-1", seqNum: "0"} for S in 1..4 and fails with a not-found
\* error for any other S.
C4_SeedOrNotFound ==
  (initPc.phase = "done" /\ StorageUp) =>
    \A route \in ReadRoutes, s \in AllSensors :
      (<<Coll(route), s>> \in untouched \/ s \notin PathSensors)
        => LET rd == readLast(route, s, FALSE)
           IN IF s \in {"1", "2", "3", "4"}
              THEN ~rd.threw /\ rd.ret = [sensorValue |-> "-1", seqNum |-> "0"]
              ELSE rd.threw /\ IsNotFound(rd.err)

\* C5: a write request with sensorId, value or seqNum absent or empty is
\* answered 400 BAD_REQUEST, and the step that answers it inserts no document,
\* allots no ObjectId, adds nothing to the file log and leaves no call pending.
C5_InvalidWriteRejected ==
  [][LET r == lastRes'.req
     IN (r.route \in WriteRoutes /\ ~Complete(r))
          => /\ lastRes'.statusCode = 400
             /\ lastRes'.body.status = 400
             /\ lastRes'.body.code = "BAD_REQUEST"
             /\ r.calls = 0
             /\ r.fileCalls = 0
             /\ database' = database
             /\ nextId' = nextId
             /\ fileLog' = fileLog
             /\ inflight' = inflight]_vars

\* C5 witness: /temp?sensorId=1&value=&seqNum=5 answered 400 with nothing stored.
C5_Witness ==
  /\ lastRes.req.route = "setTemp"
  /\ lastRes.req.value = ""
  /\ lastRes.statusCode = 400
  /\ fileLog = <<>>
  /\ Len(Documents("Temperature")) = 4

\* C6: getError gives a domain error the status 404 for "NOT_FOUND", 409 for
\* "EXISTS" and 400 for any other code, with the error's own code and message,
\* and gives every non-domain error status 500 and code "INTERNAL".
C6_GetErrorMapping ==
  errOut # NoReport =>
    IF errIn.isDomain
    THEN /\ errOut.status = (CASE errIn.errorCode = "NOT_FOUND" -> 404
                               [] errIn.errorCode = "EXISTS" -> 409
                               [] OTHER -> 400)
         /\ errOut.code = errIn.errorCode
         /\ errOut.message = errIn.message
    ELSE errOut.status = 500 /\ errOut.code = "INTERNAL"

\* C6 witness: a domain error with code "EXISTS" mapped to 409.
C6_Witness ==
  /\ errIn.isDomain
  /\ errIn.errorCode = "EXISTS"
  /\ errOut.status = 409

\* The text names this metric and no other.
NamesOnly(text, metric) == Tokens(text) \cap MetricNames = {metric}

\* C7: when the storage call of a store operation faults, the operation issues
\* that call once only, and the route that awaited it answers 500 with the
\* error the operation threw as message, which names the operation's own metric
\* and no other.
C7_StorageFault ==
  LET r == lastRes.req
  IN (r.route \in WriteRoutes \cup ReadRoutes /\ r.pc = "db" /\ r.faulted)
       => /\ r.calls = 1
          /\ lastRes.statusCode = 500
          /\ lastRes.body.status = 500
          /\ NamesOnly(lastRes.body.message, MetricOf(r.route))

\* C7 witness: a /dist write whose insertOne faulted, answered 500.
C7_Witness ==
  /\ lastRes.req.route = "setDist"
  /\ lastRes.req.pc = "db"
  /\ lastRes.req.faulted
  /\ lastRes.req.calls = 1
  /\ lastRes.statusCode = 500

\* C8: readLast<M>(S) never throws the same error value when no reading exists
\* for S as when the storage read faults.
C8_NotFoundDistinct ==
  (initPc.phase = "done" /\ StorageUp) =>
    \A route \in ReadRoutes, s \in AllSensors :
      Hits(Coll(route), s) = {}
        => readLast(route, s, FALSE).err # readLast(route, s, TRUE).err

\* C9: every error response on a route other than /closeDB and /clearDB,
\* those of the catch-all doErrors included, is a JSON object with the fields
\* status, code and message.
C9_ErrorShape ==
  (lastRes.statusCode >= 400 /\ lastRes.req.route \notin {"closeDatabase", "clearDatabase"})
    => /\ lastRes.kind = "json"
       /\ {"status", "code", "message"} \subseteq DOMAIN lastRes.body

\* Every collection keeps its documents, unchanged and in place, and gains at
\* most one at its end.
AppendOnly ==
  \A name \in DOMAIN database :
    /\ name \in DOMAIN database'
    /\ \/ database'[name] = database[name]
       \/ /\ Len(database'[name]) = Len(database[name]) + 1
          /\ SubSeq(database'[name], 1, Len(database[name])) = database[name]

\* At most one collection changes, by at most one document.
OneRecord ==
  /\ Cardinality({name \in DOMAIN database' :
                    name \notin DOMAIN database \/ database'[name] # database[name]}) <= 1
  /\ \A name \in DOMAIN database' \ DOMAIN database : Len(database'[name]) <= 1

\* C10: every step other than clear() leaves each collection an append-only
\* log: its documents stay, unchanged and in place, and a step adds at most one
\* document, at the end of one collection.
C10_AppendOnlyLog == [][clear \/ (AppendOnly /\ OneRecord)]_vars

\* C10 witness: after init, a write and a close, Temperature holds the four
\* seeds in place and the written reading after them.
C10_Witness ==
  /\ mongoDBConnection = "closed"
  /\ Len(Documents("Temperature")) = 5
  /\ \A i \in 1..4 : Documents("Temperature")[i] =
       [_id |-> i, sensorID |-> SeedSensors[i], sensorValue |-> "-1", seqNum |-> "0"]
  /\ Documents("Temperature")[5].sensorValue = "26"

\* The position, in insertion order, of the document findOne returns.
Found(name, s) ==
  CHOOSE i \in Hits(name, s) : Documents(name)[i]._id = findOne(name, s)._id

\* C11: under every interleaving of requests, a read of a metric and sensor
\* that begins after a write W to them was acknowledged by storage (W's document
\* is in the collection) returns the reading of W or of a document inserted
\* after W, never one inserted before W.  Stated for the read that begins in
\* this state and whose storage call is served in this state.
C11_ReadAfterAck ==
  StorageUp =>
    \A route \in ReadRoutes, s \in AllSensors :
      \A w \in Hits(Coll(route), s) :
        /\ ~readLast(route, s, FALSE).threw
        /\ Found(Coll(route), s) >= w

\* The file-log entry a write request asks writeFile for.
FileEntry(r) == <<FileMetric(r.route), r.sensorId, r.value>>

\* C12: in a write request that passed validation, writeFile is called, and
\* the insert is issued only after writeFile completed (the entry is in the file
\* log); when writeFile fails the insert is never issued and the answer is an
\* error; when the insert fails after writeFile succeeded the entry stays in the
\* file log and the answer is an error.
C12_FileBeforeInsert ==
  /\ \A r \in inflight :
       r.route \in WriteRoutes =>
         /\ r.fileCalls = 1
         /\ r.pc = "file" => (r.oid = 0 /\ r.calls = 0)
         /\ r.pc = "db" => (r.oid # 0 /\ FileEntry(r) \in Tokens(fileLog))
  /\ LET r == lastRes.req
     IN (r.route \in WriteRoutes /\ Complete(r)) =>
          /\ r.fileCalls = 1
          /\ r.pc = "file" =>
               (r.faulted /\ r.oid = 0 /\ r.calls = 0 /\ lastRes.statusCode >= 400)
          /\ r.pc = "db" => (r.oid # 0 /\ FileEntry(r) \in Tokens(fileLog))
          /\ (r.pc = "db" /\ r.faulted) => lastRes.statusCode >= 400

\* C12 witness: a /temp write whose insert failed after writeFile succeeded:
\* answered 500, the entry in the file log, no document inserted.
C12_Witness ==
  /\ lastRes.req.route = "setTemp"
  /\ lastRes.req.pc = "db"
  /\ lastRes.req.faulted
  /\ lastRes.statusCode = 500
  /\ fileLog = <<<<"temp", "1", "26">>>>
  /\ Len(Documents("Temperature")) = 4

\* The file-log entries of a write route for a sensor and value, and the
\* documents of a collection with that sensor and value.
Entries(route, s, v) ==
  {i \in 1..Len(fileLog) : fileLog[i] = <<FileMetric(route), s, v>>}

Stored(name, s, v) ==
  {i \in 1..Len(Documents(name)) :
     Documents(name)[i].sensorID = s /\ Documents(name)[i].sensorValue = v}

\* C13: for any two write requests to the same metric that both succeeded
\* (told apart by sensor and value, each logged once and stored once), the one
\* whose entry comes first in the file log is the one whose document was
\* inserted first in the metric's collection.
C13_LogOrder ==
  \A route \in WriteRoutes : \A q1, q2 \in Queries :
    LET e1 == Entries(route, q1.sensorId, q1.value)
        e2 == Entries(route, q2.sensorId, q2.value)
        d1 == Stored(Coll(route), q1.sensorId, q1.value)
        d2 == Stored(Coll(route), q2.sensorId, q2.value)
    IN (/\ Cardinality(e1) = 1 /\ Cardinality(e2) = 1
        /\ Cardinality(d1) = 1 /\ Cardinality(d2) = 1
        /\ \E i \in e1, j \in e2 : i < j)
         => \E i \in d1, j \in d2 : i < j

\* C14: a GET /clearDB request either answers "GOOD", the collections having
\* been dropped, or answers "BAD" after the clear operation failed.
C14_ClearRoute ==
  lastRes.req.route = "clearDatabase" =>
    \/ lastRes.body.text = "GOOD" /\ DOMAIN database = {}
    \/ lastRes.body.text = "BAD" /\ lastRes.req.faulted

\* C15: clear() run on a connected database, when no drop faults, leaves no
\* collection: every collection the database held is listed and is dropped
\* exactly once; run on a database object that never connected it drops
\* nothing, changes nothing and throws nothing.
C15_ClearAll ==
  clearOut.ran =>
    IF databaseConnection
    THEN ~clearOut.threw =>
           /\ DOMAIN database = {}
           /\ Tokens(clearOut.listed) = clearOut.before
           /\ \A n \in clearOut.before :
                Cardinality({i \in 1..Len(clearOut.drops) : clearOut.drops[i] = n}) = 1
           /\ Len(clearOut.drops) = Cardinality(clearOut.before)
    ELSE /\ ~clearOut.threw
         /\ clearOut.drops = <<>>
         /\ DOMAIN database = clearOut.before

\* C15 witness: clear() on a connected database holding the three metric
\* collections and two others has dropped all five.
C15_Witness ==
  /\ clearOut.ran
  /\ databaseConnection
  /\ ~clearOut.threw
  /\ clearOut.before = {"Temperature", "Distance", "Speed", "Archive", "Log"}
  /\ Len(clearOut.drops) = 5
  /\ DOMAIN database = {}

\* C16: close() on a database object with no connection calls nothing, throws
\* nothing and changes nothing; and a /closeDB request handled after a
\* successful close(), whose driver call does not fault, is answered "GOOD" and
\* leaves the database object and the database as the first close() left them.
C16_CloseIdempotent ==
  [][/\ mongoDBConnection = "null" =>
          \A fault \in BOOLEAN :
            close(fault) = [threw |-> FALSE, conn |-> "null", calls |-> 0]
     /\ LET r == lastRes'.req
        IN (r.route = "closeDatabase" /\ r.wasClosed /\ ~r.faulted) =>
             /\ lastRes'.body.text = "GOOD"
             /\ mongoDBConnection = "closed"
             /\ UNCHANGED <<databaseName, mongoDBConnection, databaseConnection,
                            tempCollection, distCollection, speedCollection, database,
                            nextId, fileLog, inflight>>]_vars

\* C16 witness: the second of two /closeDB requests, answered "GOOD" with the
\* connection closed.
C16_Witness ==
  /\ lastRes.req.route = "closeDatabase"
  /\ lastRes.req.wasClosed
  /\ ~lastRes.req.faulted
  /\ lastRes.body.text = "GOOD"
  /\ mongoDBConnection = "closed"
  /\ nreq = 2

\* C17: when mongo.connect() throws or the client reports that it is not
\* connected, init() ends the process at once, with no collection created, no
\* collection handle set and no seed written; init() goes on to create and seed
\* the collections, and returns, only with a live connection.
C17_ConnectOrExit ==
  [][/\ (initPc.phase = "connect" /\ mongoDBConnection' # "connected")
          => initPc'.phase = "exited"
     /\ initPc'.phase = "exited" =>
          /\ initPc.phase = "connect"
          /\ mongoDBConnection' # "connected"
          /\ database' = EmptyDatabase
          /\ nextId' = 1
          /\ ~tempCollection' /\ ~distCollection' /\ ~speedCollection'
     /\ initPc'.phase \in {"create", "seed"} => mongoDBConnection' = "connected"
     /\ (initPc.phase # "done" /\ initPc'.phase = "done")
          => mongoDBConnection' = "connected"]_vars

\* C17 witness: init() has ended the process because the client was not
\* connected; nothing was created.
C17_Witness ==
  /\ initPc.phase = "exited"
  /\ mongoDBConnection = "closed"
  /\ database = EmptyDatabase
  /\ nextId = 1

\* A connection string that ends with '/' and a word: the position of its last '/'.
LastSlash(str) ==
  LET slashes == {p \in 1..Len(str) : str[p] = "/"}
  IN IF slashes = {} THEN 0 ELSE CHOOSE x \in slashes : \A y \in slashes : y <= x

WellFormed(str) ==
  /\ LastSlash(str) > 0
  /\ LastSlash(str) < Len(str)
  /\ \A j \in (LastSlash(str) + 1)..Len(str) : str[j] \in WordChars

\* C18: every construction of a GNCDatabase from a well-formed connection
\* string, however many constructions came before it, succeeds with serverUrl
\* the part before the last '/' and databaseName the part after it; a
\* construction from a string with no '/<word>' suffix fails.
C18_ConstructorParses ==
  instance.made =>
    IF WellFormed(instance.dbUrl)
    THEN /\ ~instance.threw
         /\ instance.serverUrl = SubSeq(instance.dbUrl, 1, LastSlash(instance.dbUrl) - 1)
         /\ instance.databaseName =
              SubSeq(instance.dbUrl, LastSlash(instance.dbUrl) + 1, Len(instance.dbUrl))
    ELSE instance.threw

\* What readLast<M>(S) gives: whether it throws, the error, the reading.
ReadResult(route, s) ==
  LET rd == readLast(route, s, FALSE)
  IN <<rd.threw, rd.err, rd.ret>>

\* The collection and sensor of the i-th seed write of init().
SeedKey(i) ==
  <<(CASE i <= 4 -> "Temperature" [] i <= 8 -> "Distance" [] OTHER -> "Speed"),
    SeedSensors[((i - 1) % 4) + 1]>>

\* A step that appends to key leaves the collections of the other metrics
\* unchanged, and the result of readLast for every other metric or sensor.
FrameOf(key) ==
  /\ \A name \in CollectionNames \ {key[1]} : Documents(name)' = Documents(name)
  /\ \A route \in ReadRoutes, s \in AllSensors :
       <<Coll(route), s>> # key => ReadResult(route, s)' = ReadResult(route, s)

\* C19: an append to a metric and sensor (by a write request answered 201, or
\* by a seed write of init()) changes no collection of another metric and no
\* result of readLast for another metric or sensor; and a step that answers a
\* read request changes no collection.
C19_Frame ==
  [][/\ (lastRes'.req.route \in WriteRoutes /\ lastRes'.statusCode = CREATED)
          => FrameOf(Key(lastRes'.req))
     /\ initPc.phase = "seed" => FrameOf(SeedKey(initPc.i))
     /\ lastRes'.req.route \in ReadRoutes => database' = database]_vars

\* C19 witness: a /speed write for sensor 99 answered 201: Speed holds the new
\* document after its seeds, Temperature and Distance hold their seeds only.
C19_Witness ==
  /\ lastRes.req.route = "setSpeed"
  /\ lastRes.req.sensorId = "99"
  /\ lastRes.statusCode = CREATED
  /\ Len(Documents("Speed")) = 5
  /\ Documents("Speed")[5].sensorID = "99"
  /\ Len(Documents("Distance")) = 4
  /\ Len(Documents("Temperature")) = 4

\* The requests that can be suspended at an await: route, parameters and rid.
Suspendable ==
  {<<route, q, rid>> \in WriteRoutes \X Queries \X (1..MaxRequests) :
     ~Absent(q.sensorId) /\ ~Absent(q.value) /\ ~Absent(q.seqNum)}
  \cup (ReadRoutes \X {Query(s, Undefined, Undefined) : s \in PathSensors} \X (1..MaxRequests))

Matches(r, x) ==
  /\ r.route = x[1]
  /\ r.sensorId = x[2].sensorId /\ r.value = x[2].value /\ r.seqNum = x[2].seqNum
  /\ r.rid = x[3]

Pending(x) == \E r \in inflight : Matches(r, x)

Answered(x) == lastRes # NoResponse /\ Matches(lastRes.req, x)

\* In a step, the number of requests that finished (received and not left
\* suspended, or no longer suspended) and the number of responses sent.
Finished == (nreq' - nreq) + Cardinality(inflight) - Cardinality(inflight')

Sent == IF lastRes' # NoResponse THEN 1 ELSE 0

\* C20: when every storage and file call eventually returns or throws, every
\* request to a route gets exactly one response: each step of a handler (a call
\* of clear() on the database object is not a request) sends one response
\* exactly when a request finishes in it, and every request suspended at an
\* await is eventually answered.
C20_OneResponse ==
  /\ [][clear \/ Sent = Finished]_vars
  /\ \A x \in Suspendable : Pending(x) ~> Answered(x)

\* C20 witness: the second of two requests, a /dist/1 read that was suspended at
\* readLastDist, has been answered and no request is left suspended.
C20_Witness ==
  /\ lastRes.req.route = "getDist"
  /\ lastRes.req.pc = "db"
  /\ lastRes.statusCode = OK
  /\ nreq = 2
  /\ inflight = {}

\* C21: whenever a write request with a metric, sensorId, value and seqNum has
\* been answered 201 and its collection was not dropped by clear() since, the
\* metric's collection holds a document {sensorID: sensorId, sensorValue: value,
\* seqNum: seqNum} and the file log holds the entry (metric, sensorId, value).
C21_CreatedIsStored ==
  \A c \in created :
    /\ \E i \in 1..Len(Documents(Coll(c.route))) :
         LET document == Documents(Coll(c.route))[i]
         IN /\ document.sensorID = c.sensorId
            /\ document.sensorValue = c.value
            /\ document.seqNum = c.seqNum
    /\ <<FileMetric(c.route), c.sensorId, c.value>> \in Tokens(fileLog)

\* C21 witness: /temp?sensorId=1&value=26&seqNum=5 was answered 201 and a later
\* request has been answered since; the reading is in Temperature and in the
\* file log.
C21_Witness ==
  /\ [sensorId |-> "1", value |-> "26", seqNum |-> "5", route |-> "setTemp"] \in created
  /\ lastRes.req.route = "getIPAddr"
  /\ nreq = 2
  /\ Len(Documents("Temperature")) = 5
  /\ <<"temp", "1", "26">> \in Tokens(fileLog)

\* The documents a collection held when the process started.
PriorDocuments(name) == IF name \in DOMAIN prior THEN prior[name] ELSE <<>>

PriorHits(name, s) ==
  {i \in 1..Len(PriorDocuments(name)) : PriorDocuments(name)[i].sensorID = s}

\* The seed documents of a collection are its last four: sensors "1".."4" in
\* order, each with sensorValue "-1" and seqNum "0".
SeedsLast(name) ==
  LET docs == Documents(name)
      n == Len(PriorDocuments(name))
  IN /\ Len(docs) = n + 4
     /\ \A k \in 1..4 :
          /\ docs[n + k].sensorID = SeedSensors[k]
          /\ docs[n + k].sensorValue = "-1"
          /\ docs[n + k].seqNum = "0"

\* C22: init() run against a database that holds earlier readings keeps every
\* one of them, unchanged and in place, at every step; when it has returned,
\* each of Temperature, Distance and Speed holds its earlier documents followed
\* by the four seeds (twelve documents added, Temperature's first, then
\* Distance's, then Speed's), readLast<M>(S) returns the seed for S in "1".."4",
\* and for any other sensor with an earlier reading it returns the last of them.
C22_RestartSeeds ==
  /\ \A name \in DOMAIN prior :
       /\ name \in DOMAIN database
       /\ Len(Documents(name)) >= Len(prior[name])
       /\ \A i \in 1..Len(prior[name]) : Documents(name)[i] = prior[name][i]
  /\ initPc.phase = "done" =>
       /\ DOMAIN database = DOMAIN prior \cup CollectionNames
       /\ \A name \in CollectionNames : SeedsLast(name)
       /\ \A name \in DOMAIN database \ CollectionNames : database[name] = prior[name]
       /\ Documents("Temperature")[Len(Documents("Temperature"))]._id
            < Documents("Distance")[Len(PriorDocuments("Distance")) + 1]._id
       /\ Documents("Distance")[Len(Documents("Distance"))]._id
            < Documents("Speed")[Len(PriorDocuments("Speed")) + 1]._id
       /\ \A route \in ReadRoutes, s \in AllSensors :
            LET rd == readLast(route, s, FALSE)
                hits == PriorHits(Coll(route), s)
            IN IF s \in {"1", "2", "3", "4"}
               THEN ~rd.threw /\ rd.ret = [sensorValue |-> "-1", seqNum |-> "0"]
               ELSE hits # {} =>
                      LET last == PriorDocuments(Coll(route))[CHOOSE i \in hits :
                                                                \A j \in hits : j <= i]
                      IN ~rd.threw /\ rd.ret = [sensorValue |-> last.sensorValue,
                                                seqNum |-> last.seqNum]

\* C22 witness: init() has returned on a database that held a reading of
\* sensor 1 and then one of sensor 99 in Temperature: readLastTemp gives the
\* seed for sensor 1 and the earlier reading for sensor 99.
C22_Witness ==
  /\ initPc.phase = "done"
  /\ Len(PriorDocuments("Temperature")) = 2
  /\ PriorDocuments("Temperature")[1].sensorID = "1"
  /\ PriorDocuments("Temperature")[1].sensorValue = "26"
  /\ PriorDocuments("Temperature")[2].sensorID = "99"
  /\ Len(Documents("Temperature")) = 6
  /\ readLastTemp("1", FALSE).ret = [sensorValue |-> "-1", seqNum |-> "0"]
  /\ readLastTemp("99", FALSE).ret = [sensorValue |-> "7", seqNum |-> "0"]

====
